---- MODULE Spec2Model ----
(***************************************************************************)
(* StreamInserter (src/src/stream_insert.rs): a handle that wraps insert   *)
(* batches into GreptimeRequest envelopes, sends them over a bounded       *)
(* tokio mpsc channel to a spawned task that runs the client-streaming     *)
(* handle_requests call, and whose finish() half-closes the stream and     *)
(* reads the task's single outcome.                                        *)
(***************************************************************************)
EXTENDS Integers, Sequences, FiniteSets, TLC

\* ------------------------------------------------------------------ bounds
MaxChannelSize == 2
MaxSubmits == 3

\* ------------------------------------------------------------ input domains
Callers == {1, 2}
NoAuth == "NoAuth"
AuthHeaders == {NoAuth, "basic"}
DbNames == {"public"}
Batches == {0, 10}
AffectedRowsValues == {0, 15}
Statuses == {"Unavailable", "Internal"}

VARIABLES
    auth_header,   \* StreamInserter.auth_header
    dbname,        \* StreamInserter.dbname
    channel_size,  \* capacity given to mpsc::channel
    handle,        \* "alive" | "finishing" | "finished" | "dropped"
    sender,        \* TRUE while StreamInserter.sender has not been dropped
    queue,         \* messages buffered in the channel
    waiters,       \* callers suspended in send without a permit, FIFO
    rxClosed,      \* the receiver has been dropped
    lenAtClose,    \* number of buffered messages when the receiver was dropped
    pc,            \* per caller: "idle" | "suspended" | "granted"
    pending,       \* per caller: the envelope its suspended send carries
    ret,           \* the latest submit return: its caller, its result and
                   \* whether the send had been suspended
    calls,         \* number of submit calls started
    returns,       \* number of submit calls returned
    submitted,     \* envelopes whose submit returned Ok, in return order
    pump,          \* "Idle" | "Streaming" | "Completed"
    rpcCalls,      \* number of handle_requests calls issued
    observed,      \* envelopes the transport pulled from the request stream
    halfClosed,    \* the transport saw the end of the request stream
    outcome,       \* what awaiting the JoinHandle yields
    joinReads,     \* number of times the JoinHandle was awaited to completion
    finRes         \* what finish() produced

vars == <<auth_header, dbname, channel_size, handle, sender, queue, waiters,
          rxClosed, lenAtClose, pc, pending, ret, calls, returns, submitted,
          pump, rpcCalls, observed, halfClosed, outcome, joinReads, finRes>>

handleVars == <<auth_header, dbname, channel_size>>
pumpVars == <<pump, rpcCalls, observed, halfClosed, outcome>>
finishVars == <<handle, sender, joinReads, finRes>>

\* ------------------------------------------------------------------ values
NoEnv == [header |-> [authorization |-> "-", dbname |-> "-"],
          request |-> [kind |-> "-", rows |-> 0]]

Res(tag, val) == [tag |-> tag, val |-> val]
NoResult == Res("None", 0)

\* to_rpc_request leaving the authorization out of the header
to_rpc_request_NoAuth(request) ==
    [header |-> [authorization |-> NoAuth, dbname |-> dbname],
     request |-> request]

\* GreptimeRequest built from the handle's fields and one payload
to_rpc_request(request) ==
    [header |-> [authorization |-> auth_header, dbname |-> dbname],
     request |-> request]

RowInserts(rows) == [kind |-> "RowInserts", rows |-> rows]
Inserts(rows) == [kind |-> "Inserts", rows |-> rows]

\* permits of the channel's semaphore that no message and no woken sender holds
Granted == {c \in Callers : pc[c] = "granted"}
Permits == channel_size - Len(queue) - Cardinality(Granted)

\* the error both submit methods map a SendError to
ClientStreaming == Res("ClientStreaming", 0)
OkUnit == Res("Ok", 0)

\* ------------------------------------------------------------------- Init
Init ==
    /\ auth_header \in AuthHeaders
    /\ dbname \in DbNames
    /\ channel_size \in 1..MaxChannelSize
    /\ handle = "alive"
    /\ sender = TRUE
    /\ queue = << >>
    /\ waiters = << >>
    /\ rxClosed = FALSE
    /\ lenAtClose = 0
    /\ pc = [c \in Callers |-> "idle"]
    /\ pending = [c \in Callers |-> NoEnv]
    /\ ret = [caller |-> 0, res |-> NoResult, waited |-> FALSE]
    /\ calls = 0
    /\ returns = 0
    /\ submitted = << >>
    /\ pump = "Idle"
    /\ rpcCalls = 0
    /\ observed = << >>
    /\ halfClosed = FALSE
    /\ outcome = NoResult
    /\ joinReads = 0
    /\ finRes = NoResult

\* ------------------------------------------------------- Sender::send
\* Send buffering the message whether a permit is free or not
SendUnbounded(c, request) ==
    /\ handle = "alive"
    /\ pc[c] = "idle"
    /\ calls < MaxSubmits
    /\ calls' = calls + 1
    /\ IF rxClosed
       THEN /\ ret' = [caller |-> c, res |-> ClientStreaming, waited |-> FALSE]
            /\ returns' = returns + 1
            /\ UNCHANGED <<queue, waiters, pc, pending, submitted>>
       ELSE /\ queue' = Append(queue, request)
            /\ submitted' = Append(submitted, request)
            /\ ret' = [caller |-> c, res |-> OkUnit, waited |-> FALSE]
            /\ returns' = returns + 1
            /\ UNCHANGED <<waiters, pc, pending>>
    /\ UNCHANGED <<handleVars, pumpVars, finishVars, rxClosed, lenAtClose>>

\* self.sender.send(request).await, first poll: Err when the receiver is
\* gone, the message is buffered when a permit is free, else the caller
\* is queued behind the earlier waiters.
Send(c, request) ==
    /\ handle = "alive"
    /\ pc[c] = "idle"
    /\ calls < MaxSubmits
    /\ calls' = calls + 1
    /\ IF rxClosed
       THEN /\ ret' = [caller |-> c, res |-> ClientStreaming, waited |-> FALSE]
            /\ returns' = returns + 1
            /\ UNCHANGED <<queue, waiters, pc, pending, submitted>>
       ELSE IF Permits > 0
       THEN /\ queue' = Append(queue, request)
            /\ submitted' = Append(submitted, request)
            /\ ret' = [caller |-> c, res |-> OkUnit, waited |-> FALSE]
            /\ returns' = returns + 1
            /\ UNCHANGED <<waiters, pc, pending>>
       ELSE /\ waiters' = Append(waiters, c)
            /\ pc' = [pc EXCEPT ![c] = "suspended"]
            /\ pending' = [pending EXCEPT ![c] = request]
            /\ UNCHANGED <<queue, ret, returns, submitted>>
    /\ UNCHANGED <<handleVars, pumpVars, finishVars, rxClosed, lenAtClose>>

\* SendWake without the wake-up of waiting senders when the receiver is
\* dropped
SendWakeNotOnClose(c) ==
    /\ pc[c] = "granted"
    /\ ~rxClosed
    /\ queue' = Append(queue, pending[c])
    /\ submitted' = Append(submitted, pending[c])
    /\ ret' = [caller |-> c, res |-> OkUnit, waited |-> TRUE]
    /\ pc' = [pc EXCEPT ![c] = "idle"]
    /\ pending' = [pending EXCEPT ![c] = NoEnv]
    /\ returns' = returns + 1
    /\ UNCHANGED <<handleVars, pumpVars, finishVars, rxClosed, lenAtClose,
                   waiters, calls>>

\* SendWake buffering the message of a send that fails on a dropped receiver
SendWakeLeaky(c) ==
    /\ pc[c] \in {"suspended", "granted"}
    /\ \/ /\ rxClosed
          /\ ret' = [caller |-> c, res |-> ClientStreaming, waited |-> TRUE]
          /\ queue' = Append(queue, pending[c])
          /\ UNCHANGED submitted
       \/ /\ ~rxClosed
          /\ pc[c] = "granted"
          /\ queue' = Append(queue, pending[c])
          /\ submitted' = Append(submitted, pending[c])
          /\ ret' = [caller |-> c, res |-> OkUnit, waited |-> TRUE]
    /\ pc' = [pc EXCEPT ![c] = "idle"]
    /\ pending' = [pending EXCEPT ![c] = NoEnv]
    /\ returns' = returns + 1
    /\ UNCHANGED <<handleVars, pumpVars, finishVars, rxClosed, lenAtClose,
                   waiters, calls>>

\* a suspended send polled again: Err once the receiver is gone, otherwise
\* a sender that was handed a permit buffers its message
SendWake(c) ==
    /\ pc[c] \in {"suspended", "granted"}
    /\ \/ /\ rxClosed
          /\ ret' = [caller |-> c, res |-> ClientStreaming, waited |-> TRUE]
          /\ UNCHANGED <<queue, submitted>>
       \/ /\ ~rxClosed
          /\ pc[c] = "granted"
          /\ queue' = Append(queue, pending[c])
          /\ submitted' = Append(submitted, pending[c])
          /\ ret' = [caller |-> c, res |-> OkUnit, waited |-> TRUE]
    /\ pc' = [pc EXCEPT ![c] = "idle"]
    /\ pending' = [pending EXCEPT ![c] = NoEnv]
    /\ returns' = returns + 1
    /\ UNCHANGED <<handleVars, pumpVars, finishVars, rxClosed, lenAtClose,
                   waiters, calls>>

\* ------------------------------------------------------------ submit
insert(c, rows) == Send(c, to_rpc_request(Inserts(rows)))

row_insert(c, rows) == Send(c, to_rpc_request(RowInserts(rows)))

\* -------------------------------------------------------- the spawned task
\* first poll of the spawned future: the receiver is wrapped and
\* handle_requests is called
PumpStart ==
    /\ pump = "Idle"
    /\ pump' = "Streaming"
    /\ rpcCalls' = rpcCalls + 1
    /\ UNCHANGED <<handleVars, finishVars, queue, waiters, rxClosed, lenAtClose,
                   pc, pending, ret, calls, returns, submitted, observed,
                   halfClosed, outcome>>

\* PumpForward freeing the slot without waking the longest-waiting sender
PumpForwardNoWake ==
    /\ pump = "Streaming"
    /\ ~rxClosed
    /\ queue # << >>
    /\ observed' = Append(observed, Head(queue))
    /\ queue' = Tail(queue)
    /\ UNCHANGED <<handleVars, finishVars, rxClosed, lenAtClose, pending, ret,
                   calls, returns, submitted, pump, rpcCalls, halfClosed,
                   outcome, pc, waiters>>

\* PumpForward taking the newest buffered message instead of the oldest
PumpForwardLifo ==
    /\ pump = "Streaming"
    /\ ~rxClosed
    /\ queue # << >>
    /\ observed' = Append(observed, queue[Len(queue)])
    /\ queue' = SubSeq(queue, 1, Len(queue) - 1)
    /\ IF waiters # << >>
       THEN /\ pc' = [pc EXCEPT ![Head(waiters)] = "granted"]
            /\ waiters' = Tail(waiters)
       ELSE UNCHANGED <<pc, waiters>>
    /\ UNCHANGED <<handleVars, finishVars, rxClosed, lenAtClose, pending, ret,
                   calls, returns, submitted, pump, rpcCalls, halfClosed,
                   outcome>>

\* PumpForward reading the oldest message without removing it
PumpForwardPeek ==
    /\ pump = "Streaming"
    /\ ~rxClosed
    /\ queue # << >>
    /\ Len(observed) < MaxSubmits + 1
    /\ observed' = Append(observed, Head(queue))
    /\ UNCHANGED <<handleVars, finishVars, rxClosed, lenAtClose, pending, ret,
                   calls, returns, submitted, pump, rpcCalls, halfClosed,
                   outcome, pc, waiters, queue>>

\* the transport pulls the next message; the freed permit goes to the
\* longest-waiting sender, if any
PumpForward ==
    /\ pump = "Streaming"
    /\ ~rxClosed
    /\ queue # << >>
    /\ observed' = Append(observed, Head(queue))
    /\ queue' = Tail(queue)
    /\ IF waiters # << >>
       THEN /\ pc' = [pc EXCEPT ![Head(waiters)] = "granted"]
            /\ waiters' = Tail(waiters)
       ELSE UNCHANGED <<pc, waiters>>
    /\ UNCHANGED <<handleVars, finishVars, rxClosed, lenAtClose, pending, ret,
                   calls, returns, submitted, pump, rpcCalls, halfClosed,
                   outcome>>

\* PumpEndOfInput ending the stream whenever nothing is buffered, sender
\* alive or not
PumpEndOfInputSenderAlive ==
    /\ pump = "Streaming"
    /\ ~rxClosed
    /\ queue = << >>
    /\ ~halfClosed
    /\ halfClosed' = TRUE
    /\ UNCHANGED <<handleVars, finishVars, queue, waiters, rxClosed, lenAtClose,
                   pc, pending, ret, calls, returns, submitted, pump, rpcCalls,
                   observed, outcome>>

\* PumpEndOfInput ending the stream as soon as the sender is dropped,
\* buffered messages or not
PumpEndOfInputEarly ==
    /\ pump = "Streaming"
    /\ ~rxClosed
    /\ ~sender
    /\ ~halfClosed
    /\ halfClosed' = TRUE
    /\ UNCHANGED <<handleVars, finishVars, queue, waiters, rxClosed, lenAtClose,
                   pc, pending, ret, calls, returns, submitted, pump, rpcCalls,
                   observed, outcome>>

\* the request stream ends: every sender is dropped and nothing is buffered
PumpEndOfInput ==
    /\ pump = "Streaming"
    /\ ~rxClosed
    /\ ~sender
    /\ queue = << >>
    /\ ~halfClosed
    /\ halfClosed' = TRUE
    /\ UNCHANGED <<handleVars, finishVars, queue, waiters, rxClosed, lenAtClose,
                   pc, pending, ret, calls, returns, submitted, pump, rpcCalls,
                   observed, outcome>>

\* PumpComplete with the receiver kept alive after the task ended
PumpCompleteKeepRx(r) ==
    /\ pump = "Streaming"
    /\ pump' = "Completed"
    /\ outcome' = r
    /\ UNCHANGED <<handleVars, finishVars, pc, pending, ret, calls, returns,
                   submitted, rpcCalls, observed, halfClosed, rxClosed,
                   lenAtClose, queue, waiters>>

\* the spawned future ends with result r; what it owns, the receiver
\* included, is dropped and the buffered messages with it
PumpComplete(r) ==
    /\ pump = "Streaming"
    /\ pump' = "Completed"
    /\ outcome' = r
    /\ rxClosed' = TRUE
    /\ lenAtClose' = Len(queue)
    /\ queue' = << >>
    /\ waiters' = << >>
    /\ UNCHANGED <<handleVars, finishVars, pc, pending, ret, calls, returns,
                   submitted, rpcCalls, observed, halfClosed>>

\* handle_requests returns Ok with a response carrying AffectedRows
ServerRespond == \E v \in AffectedRowsValues : PumpComplete(Res("Response", v))

\* handle_requests returns Ok with a response whose payload is None
ServerRespondEmpty == PumpComplete(Res("EmptyResponse", 0))

\* handle_requests returns Err(Status)
TransportFail == \E s \in Statuses : PumpComplete(Res("Status", s))

\* the spawned future panics
PumpPanic == PumpComplete(Res("JoinError", 0))

\* ------------------------------------------------------------ finish
\* FinishResult taking a response without payload for zero affected rows
FinishResultEmptyAsZero(joined) ==
    IF joined.tag = "JoinError" THEN Res("Panic", 0)
    ELSE IF joined.tag = "Status" THEN Res("Status", joined.val)
    ELSE IF joined.tag = "EmptyResponse" THEN Res("Ok", 0)
    ELSE Res("Ok", joined.val)

\* FinishResult reporting an RPC failure as an illegal response
FinishResultStatusAsIllegal(joined) ==
    IF joined.tag = "JoinError" THEN Res("Panic", 0)
    ELSE IF joined.tag = "Status" THEN Res("IllegalDatabaseResponse", 0)
    ELSE IF joined.tag = "EmptyResponse" THEN Res("IllegalDatabaseResponse", 0)
    ELSE Res("Ok", joined.val)

\* FinishResult returning the default row count instead of the server's
FinishResultDefaultValue(joined) ==
    IF joined.tag = "JoinError" THEN Res("Panic", 0)
    ELSE IF joined.tag = "Status" THEN Res("Status", joined.val)
    ELSE IF joined.tag = "EmptyResponse" THEN Res("IllegalDatabaseResponse", 0)
    ELSE Res("Ok", 0)

\* the value of finish() given what awaiting the JoinHandle yielded
FinishResult(joined) ==
    IF joined.tag = "JoinError" THEN Res("Panic", 0)
    ELSE IF joined.tag = "Status" THEN Res("Status", joined.val)
    ELSE IF joined.tag = "EmptyResponse" THEN Res("IllegalDatabaseResponse", 0)
    ELSE Res("Ok", joined.val)

\* FinishBegin awaiting the task without dropping the sender first
FinishBeginKeepSender ==
    /\ handle = "alive"
    /\ \A c \in Callers : pc[c] = "idle"
    /\ handle' = "finishing"
    /\ UNCHANGED <<handleVars, pumpVars, queue, waiters, rxClosed, lenAtClose,
                   pc, pending, ret, calls, returns, submitted, joinReads,
                   finRes, sender>>

\* FinishBegin callable while a submit on the handle is still suspended
FinishBeginBorrowed ==
    /\ handle = "alive"
    /\ handle' = "finishing"
    /\ sender' = FALSE
    /\ UNCHANGED <<handleVars, pumpVars, queue, waiters, rxClosed, lenAtClose,
                   pc, pending, ret, calls, returns, submitted, joinReads,
                   finRes>>

\* finish(self) up to the await: taking the handle by value needs every
\* borrow of it ended; the sender is dropped
FinishBegin ==
    /\ handle = "alive"
    /\ \A c \in Callers : pc[c] = "idle"
    /\ handle' = "finishing"
    /\ sender' = FALSE
    /\ UNCHANGED <<handleVars, pumpVars, queue, waiters, rxClosed, lenAtClose,
                   pc, pending, ret, calls, returns, submitted, joinReads,
                   finRes>>

\* FinishJoin starting the call over when it failed with a Status
FinishJoinRetry ==
    /\ handle = "finishing"
    /\ pump = "Completed"
    /\ IF outcome.tag = "Status" /\ rpcCalls < 2
       THEN /\ pump' = "Idle"
            /\ outcome' = NoResult
            /\ UNCHANGED <<handle, joinReads, finRes>>
       ELSE /\ handle' = "finished"
            /\ joinReads' = joinReads + 1
            /\ finRes' = FinishResult(outcome)
            /\ UNCHANGED <<pump, outcome>>
    /\ UNCHANGED <<handleVars, queue, waiters, rxClosed, lenAtClose, pc,
                   pending, ret, calls, returns, submitted, sender, rpcCalls,
                   observed, halfClosed>>

\* finish(self) from the await on: the task's outcome is taken and mapped
FinishJoin ==
    /\ handle = "finishing"
    /\ pump = "Completed"
    /\ handle' = "finished"
    /\ joinReads' = joinReads + 1
    /\ finRes' = FinishResult(outcome)
    /\ UNCHANGED <<handleVars, pumpVars, queue, waiters, rxClosed, lenAtClose,
                   pc, pending, ret, calls, returns, submitted, sender>>

\* DropHandle aborting the spawned task along with the handle
DropHandleAbort ==
    /\ handle = "alive"
    /\ \A c \in Callers : pc[c] = "idle"
    /\ handle' = "dropped"
    /\ sender' = FALSE
    /\ pump' = "Completed"
    /\ outcome' = Res("JoinError", 0)
    /\ rxClosed' = TRUE
    /\ lenAtClose' = Len(queue)
    /\ queue' = << >>
    /\ UNCHANGED <<handleVars, waiters, pc, pending, ret, calls, returns,
                   submitted, joinReads, finRes, rpcCalls, observed,
                   halfClosed>>

\* the handle goes out of scope without finish: sender and JoinHandle are
\* dropped, the task is detached
DropHandle ==
    /\ handle = "alive"
    /\ \A c \in Callers : pc[c] = "idle"
    /\ handle' = "dropped"
    /\ sender' = FALSE
    /\ UNCHANGED <<handleVars, pumpVars, queue, waiters, rxClosed, lenAtClose,
                   pc, pending, ret, calls, returns, submitted, joinReads,
                   finRes>>

\* ------------------------------------------------------------------ Next
Next ==
    \/ \E c \in Callers, rows \in Batches : insert(c, rows)
    \/ \E c \in Callers, rows \in Batches : row_insert(c, rows)
    \/ \E c \in Callers : SendWake(c)
    \/ PumpStart
    \/ PumpForward
    \/ PumpEndOfInput
    \/ ServerRespond
    \/ ServerRespondEmpty
    \/ TransportFail
    \/ PumpPanic
    \/ FinishBegin
    \/ FinishJoin
    \/ DropHandle

Spec == Init /\ [][Next]_vars

\* the handles built without an authorization: the header is carried
\* along unread, so scheduling does not depend on its contents
LiveInit == Init /\ auth_header = NoAuth

\* the runtime polls the spawned task and every woken sender, and the
\* transport keeps pulling messages while the call is in flight
LiveSpec ==
    /\ LiveInit
    /\ [][Next]_vars
    /\ WF_vars(PumpStart)
    /\ WF_vars(PumpForward)
    /\ \A c \in Callers : WF_vars(SendWake(c))

\* a server that keeps the transport contract: its one response comes
\* after it has seen the end of the request stream
ServerRespondAfterEndOfInput ==
    /\ halfClosed
    /\ (ServerRespond \/ ServerRespondEmpty)

ContractNext ==
    \/ \E c \in Callers, rows \in Batches : insert(c, rows)
    \/ \E c \in Callers, rows \in Batches : row_insert(c, rows)
    \/ \E c \in Callers : SendWake(c)
    \/ PumpStart
    \/ PumpForward
    \/ PumpEndOfInput
    \/ ServerRespondAfterEndOfInput
    \/ TransportFail
    \/ PumpPanic
    \/ FinishBegin
    \/ FinishJoin
    \/ DropHandle

\* the program against a server that keeps the transport contract
ContractSpec == Init /\ [][ContractNext]_vars

\* the call ends, one way or another, once the request stream has ended
AnswerAfterEndOfInput ==
    /\ halfClosed
    /\ (ServerRespond \/ ServerRespondEmpty \/ TransportFail)

\* LiveSpec, and besides: the transport notices the end of the request
\* stream, the server answers or fails after it, and a finish that waits
\* for the completed task is resumed
FairSpec ==
    /\ LiveSpec
    /\ WF_vars(PumpEndOfInput)
    /\ WF_vars(AnswerAfterEndOfInput)
    /\ WF_vars(FinishJoin)

\* ================================================================ claims
IsPrefix(s, t) == Len(s) <= Len(t) /\ SubSeq(t, 1, Len(s)) = s

\* C1: the envelopes the transport has observed are always a prefix of the
\* envelopes whose submit returned success, in the same order.
C1_OrderPreserved == IsPrefix(observed, submitted)

\* three envelopes of both payload kinds and of different sizes went
\* through a channel of capacity 1 and were delivered
C1_Witness ==
    /\ Len(observed) = 3
    /\ observed[1].request.kind # observed[2].request.kind
    /\ observed[2].request.rows # observed[3].request.rows
    /\ calls = 3 /\ returns = 3 /\ channel_size = 1

\* C2: the transport sees end-of-input only when nothing is buffered and
\* every successfully submitted envelope has been handed to it.
C2_EndOfInputAfterAll ==
    halfClosed => (queue = << >> /\ observed = submitted)

\* finish was called after three successful submits and the stream was
\* half-closed behind them
C2_Witness ==
    /\ halfClosed
    /\ handle = "finishing"
    /\ pump = "Streaming"
    /\ Len(submitted) = 3

\* C3: a submit made while the queue holds capacity-many envelopes suspends
\* (no return, no error, queue and successes untouched, its envelope kept);
\* while the receiver lives every suspended submit eventually returns Ok,
\* and the step that returns Ok appends exactly its envelope to the queue.
C3_Backpressure ==
    /\ [][(calls' = calls + 1 /\ ~rxClosed /\ Len(queue) = channel_size)
            => /\ returns' = returns /\ ret' = ret
               /\ queue' = queue /\ submitted' = submitted
               /\ \E c \in Callers :
                     /\ pc[c] = "idle" /\ pc'[c] = "suspended"
                     /\ pending'[c] # NoEnv
                     /\ waiters' = Append(waiters, c)]_vars
    /\ [][\A c \in Callers :
            (pc[c] # "idle" /\ pc'[c] = "idle" /\ ret'.res = OkUnit)
            => (ret'.caller = c /\ queue' = Append(queue, pending[c]))]_vars
    /\ \A c \in Callers :
          (pc[c] = "suspended")
            ~> (rxClosed \/ (pc[c] = "idle" /\ ret.caller = c /\ ret.res = OkUnit))

\* a submit that found the queue full has returned Ok after the pump made
\* room, and the receiver is still alive
C3_Witness ==
    /\ ~rxClosed
    /\ channel_size = 1
    /\ calls = 2 /\ returns = 2
    /\ Len(observed) = 1 /\ Len(queue) = 1
    /\ ret.res = OkUnit /\ ret.waited
    /\ Len(submitted) = 2

\* C4: once the pump task has completed, a submit on the live handle
\* returns the ClientStreaming error at once: nobody is suspended and
\* nothing is enqueued.
C4_DeadStreamDetected ==
    [][(pump = "Completed" /\ handle = "alive" /\ calls' = calls + 1)
        => /\ returns' = returns + 1
           /\ ret'.res = ClientStreaming
           /\ pc' = pc /\ waiters' = waiters
           /\ queue' = queue /\ submitted' = submitted]_vars

\* the pump ended while one of two slots was taken; a submit made after
\* that returned ClientStreaming without having been suspended
C4_Witness ==
    /\ pump = "Completed" /\ handle = "alive"
    /\ channel_size = 2 /\ lenAtClose = 1
    /\ Len(submitted) = 1 /\ observed = << >>
    /\ calls = 2 /\ returns = 2
    /\ ret.res = ClientStreaming /\ ~ret.waited

\* C5: when the call ended Ok with a response that has no payload, finish
\* fails with IllegalDatabaseResponse: no row count, and not the outcome of
\* a transport failure.
C5_EmptyResponseRejected ==
    (handle = "finished" /\ outcome.tag = "EmptyResponse")
        => /\ finRes = Res("IllegalDatabaseResponse", 0)
           /\ finRes.tag \notin {"Ok", "Status"}

C5_Witness ==
    /\ handle = "finished"
    /\ outcome.tag = "EmptyResponse"
    /\ halfClosed
    /\ Len(observed) = 2

\* C6: when the pump task panicked, finish returns a TaskJoinError error
\* value to its caller.
C6_TaskJoinErrorReturned ==
    (handle = "finished" /\ outcome.tag = "JoinError")
        => finRes.tag = "TaskJoinError"

\* C7: when the call ended with a transport failure, finish returns that
\* same Status as its error, after exactly one RPC call, whatever was
\* submitted or delivered.
C7_TransportErrorVerbatim ==
    (handle = "finished" /\ outcome.tag = "Status")
        => (finRes = Res("Status", outcome.val) /\ rpcCalls = 1)

\* the call failed with two envelopes submitted and one delivered
C7_Witness ==
    /\ handle = "finished"
    /\ outcome = Res("Status", "Internal")
    /\ Len(submitted) = 2 /\ Len(observed) = 1

\* C8: when the server answered affected-rows = v, finish returns v; when
\* it answered after end-of-input, the transport observed exactly the
\* successfully submitted envelopes, one per submit, in order.
C8_ServerCountReturned ==
    (handle = "finished" /\ outcome.tag = "Response")
        => /\ finRes = Res("Ok", outcome.val)
           /\ halfClosed => (observed = submitted /\ Len(observed) = returns)

\* three batches of 10, 0 and 10 rows, the server answers 15
C8_Witness ==
    /\ handle = "finished"
    /\ halfClosed
    /\ outcome = Res("Response", 15)
    /\ finRes = Res("Ok", 15)
    /\ Len(observed) = 3
    /\ observed[1].request.rows = 10
    /\ observed[2].request.rows = 0
    /\ observed[3].request.rows = 10

\* C9: finish yields one terminal outcome and reads the task's outcome
\* once; the handle is consumed for good; once finish has begun no submit
\* starts or returns Ok and nothing is added to the queue.
C9_FinishOnce ==
    /\ [](/\ joinReads = (IF handle = "finished" THEN 1 ELSE 0)
          /\ (finRes # NoResult) <=> (handle = "finished")
          /\ sender <=> (handle = "alive"))
    /\ [][handle # "alive"
            => /\ calls' = calls /\ submitted' = submitted
               /\ Len(queue') <= Len(queue)
               /\ handle' # "alive"]_vars
    /\ [][(handle = "finished" \/ handle = "dropped")
            => (handle' = handle /\ finRes' = finRes /\ joinReads' = joinReads)]_vars

\* finish returned a row count while the queue had been used
C9_Witness ==
    /\ handle = "finished"
    /\ joinReads = 1
    /\ finRes.tag = "Ok"
    /\ Len(submitted) = 2

\* every envelope a handle can build
Envelopes ==
    {[header |-> [authorization |-> auth_header, dbname |-> dbname],
      request |-> [kind |-> k, rows |-> n]] :
        k \in {"Inserts", "RowInserts"}, n \in Batches}

\* C10: a submit that returns Ok has appended exactly one whole envelope
\* to the queue; a submit that returns an error leaves the queue, the
\* handle's fields and the pump task as they were.
C10_SubmitAllOrNothing ==
    [][returns' = returns + 1
        => \/ /\ ret'.res = OkUnit
              /\ \E e \in Envelopes :
                    /\ queue' = Append(queue, e)
                    /\ submitted' = Append(submitted, e)
           \/ /\ ret'.res = ClientStreaming
              /\ queue' = queue /\ submitted' = submitted
              /\ UNCHANGED <<handleVars, pumpVars>>]_vars

\* one submit returned Ok and a later one failed
C10_Witness ==
    /\ ret.res = ClientStreaming
    /\ returns = 3
    /\ Len(submitted) = 2
    /\ pump = "Completed"

\* C11: a handle dropped without finish leaves the task and the queue as
\* they were (nothing is cancelled); the transport then sees end-of-input
\* only behind every enqueued envelope, the task runs to its completion,
\* and its outcome is never read.
C11_DroppedHandle ==
    /\ []((handle = "dropped")
            => /\ ~sender
               /\ joinReads = 0 /\ finRes = NoResult
               /\ halfClosed => (queue = << >> /\ observed = submitted))
    /\ [][(handle = "alive" /\ handle' = "dropped")
            => UNCHANGED <<pumpVars, queue, rxClosed>>]_vars
    /\ (handle = "dropped") ~> (pump = "Completed")

\* the handle was dropped with envelopes enqueued and the task not yet
\* polled
C11_Witness ==
    /\ handle = "dropped"
    /\ pump = "Idle"
    /\ Len(queue) = 2

\* the same handle later: the task delivered both envelopes, saw
\* end-of-input and ended with the server's answer, which nobody read
C11_WitnessDone ==
    /\ handle = "dropped"
    /\ pump = "Completed" /\ outcome.tag = "Response"
    /\ halfClosed
    /\ Len(observed) = 2
    /\ joinReads = 0

\* C12: with callers submitting concurrently, each caller has at most one
\* send in flight and its waiting envelope is kept as given; a submit that
\* returns Ok appends exactly its own envelope, once, behind everything
\* enqueued before; while the receiver lives nothing is lost or repeated
\* (delivered plus buffered = submitted, in order); and every delivery
\* removes exactly the head of the queue.
C12_AtomicEnqueueDequeue ==
    /\ [](/\ calls - returns = Cardinality({c \in Callers : pc[c] # "idle"})
          /\ \A c \in Callers : (pc[c] # "idle") <=> (pending[c] # NoEnv)
          /\ ~rxClosed => (observed \o queue = submitted))
    /\ [][\A c \in Callers :
            (pc[c] # "idle" /\ pc'[c] # "idle") => pending'[c] = pending[c]]_vars
    /\ [][(returns' = returns + 1 /\ ret'.res = OkUnit)
            => /\ Len(queue') = Len(queue) + 1
               /\ submitted' = Append(submitted, queue'[Len(queue')])
               /\ SubSeq(queue', 1, Len(queue)) = queue
               /\ observed' = observed
               /\ ret'.waited => queue'[Len(queue')] = pending[ret'.caller]]_vars
    /\ [][observed' # observed
            => /\ queue # << >>
               /\ observed' = Append(observed, Head(queue))
               /\ queue' = Tail(queue)
               /\ submitted' = submitted]_vars

\* two callers were suspended at once with different envelopes; the task
\* has delivered one envelope and the freed slot went to the first of them
C12_Witness ==
    /\ pc[1] = "granted" /\ pc[2] = "suspended"
    /\ pending[1] # pending[2]
    /\ Len(observed) = 1
    /\ queue = << >>

C13_WitnessFailed ==
    /\ pump = "Completed" /\ outcome.tag = "Status"
    /\ handle = "alive"
    /\ Len(observed) = 1

\* position of a task state in Idle, Streaming, Completed
PumpRank(p) == IF p = "Idle" THEN 0 ELSE IF p = "Streaming" THEN 1 ELSE 2

\* C14: the handle's one task only moves forward through Idle, Streaming,
\* Completed; it issues exactly one RPC call, when it leaves Idle; it holds
\* an outcome exactly when Completed, and that outcome never changes.
C14_PumpForwardOnly ==
    /\ [](/\ pump \in {"Idle", "Streaming", "Completed"}
          /\ rpcCalls = (IF pump = "Idle" THEN 0 ELSE 1)
          /\ (outcome # NoResult) <=> (pump = "Completed"))
    /\ [][/\ PumpRank(pump') >= PumpRank(pump)
          /\ PumpRank(pump') <= PumpRank(pump) + 1
          /\ rpcCalls' >= rpcCalls]_vars
    /\ [][pump = "Completed"
            => (pump' = "Completed" /\ outcome' = outcome)]_vars

\* the task went through its three states with deliveries in between, and
\* finish has read the failed call's outcome
C14_Witness ==
    /\ pump = "Completed"
    /\ outcome.tag = "Status"
    /\ handle = "finished"
    /\ rpcCalls = 1
    /\ Len(observed) = 2

\* C15: the queue never buffers more than channel_size envelopes, slots
\* promised to woken senders included, whatever the task's state; callers
\* wait only while no slot is free; channel_size never changes.
C15_QueueBounded ==
    /\ [](/\ channel_size \in 1..MaxChannelSize
          /\ Len(queue) <= channel_size
          /\ Len(queue) + Cardinality(Granted) <= channel_size
          /\ (waiters # << >> /\ ~rxClosed) => Permits = 0)
    /\ [][channel_size' = channel_size]_vars

\* the queue is full at capacity 2 while the task has not been polled,
\* and a third submit is waiting
C15_Witness ==
    /\ channel_size = 2
    /\ Len(queue) = 2
    /\ pump = "Idle"
    /\ \E c \in Callers : pc[c] = "suspended"

\* all envelopes the handle has produced so far
AllEnvelopes ==
    {queue[i] : i \in DOMAIN queue} \cup {observed[i] : i \in DOMAIN observed}
    \cup {submitted[i] : i \in DOMAIN submitted}
    \cup {pending[c] : c \in {d \in Callers : pc[d] # "idle"}}

\* C16: every envelope of the handle carries one payload, row inserts or
\* legacy inserts, and a header with the handle's authorization and
\* database name; the handle's two fields never change.
C16_HeaderConstant ==
    /\ [](\A e \in AllEnvelopes :
            /\ e.header = [authorization |-> auth_header, dbname |-> dbname]
            /\ e.request.kind \in {"Inserts", "RowInserts"}
            /\ e.request.rows \in Batches)
    /\ [][auth_header' = auth_header /\ dbname' = dbname]_vars

\* a handle with an authorization has had three envelopes of both kinds
\* delivered
C16_Witness ==
    /\ auth_header = "basic"
    /\ Len(observed) = 3
    /\ observed[1].request.kind = "Inserts"
    /\ observed[3].request.kind = "RowInserts"
    /\ observed[1].header.authorization = "basic"

\* C17: a submit that is waiting for a slot when the task completes is
\* released: it returns ClientStreaming, and the step that returns it
\* enqueues nothing and records no success.
C17_WaiterReleased ==
    /\ [][\A c \in Callers :
            (pc[c] # "idle" /\ pump = "Completed" /\ pc'[c] = "idle")
            => /\ ret' = [caller |-> c, res |-> ClientStreaming, waited |-> TRUE]
               /\ returns' = returns + 1
               /\ queue' = queue /\ submitted' = submitted]_vars
    /\ \A c \in Callers :
          (pc[c] # "idle" /\ pump = "Completed")
            ~> (pc[c] = "idle" /\ ret.caller = c /\ ret.res = ClientStreaming
                /\ ret.waited)

\* the task failed while the queue was full and a submit was waiting;
\* that submit has returned ClientStreaming and its envelope is nowhere
C17_Witness ==
    /\ pump = "Completed" /\ outcome.tag = "Status"
    /\ handle = "alive"
    /\ channel_size = 2 /\ lenAtClose = 2
    /\ calls = 3 /\ returns = 3
    /\ ret.res = ClientStreaming /\ ret.waited
    /\ Len(submitted) = 2 /\ queue = << >>

\* C18: once finish has dropped the sender and waits for the task, it
\* eventually returns, whatever the queue held and whether or not the
\* task had been polled when finish was called.
C18_FinishReturns ==
    (handle = "finishing") ~> (handle = "finished" /\ finRes # NoResult)

\* finish waits while the queue is full and the task was never polled
C18_Witness ==
    /\ handle = "finishing"
    /\ pump = "Idle"
    /\ channel_size = 2
    /\ Len(queue) = 2

\* finish has returned the server's count after the task, started late,
\* delivered the two envelopes that were buffered
C18_WitnessDone ==
    /\ handle = "finished"
    /\ finRes.tag = "Ok"
    /\ halfClosed
    /\ Len(observed) = 2

====
